---------------------------- MODULE Spec2Model ----------------------------
(***************************************************************************)
(* kbfsfuse File nodes (src/kbfsfuse/file.go) over one Folder.             *)
(*                                                                         *)
(* State: the PathNode of every node of the tree, the Folder's             *)
(* readers-writer lock (folder.mu), and for every request thread the       *)
(* handler it runs, its position in it and its local variables.            *)
(*                                                                         *)
(* KBFSOps (the backend) is external: each call is a step that enters the  *)
(* backend and a step that returns, with a result chosen from the results  *)
(* the interface allows (an error, or success with any Path of the length  *)
(* of the Path passed in).                                                 *)
(*                                                                         *)
(* Dir (dir.go) is not among the sources; Dir.getPathLocked and            *)
(* Dir.updatePathLocked follow spec sections 4.2 and 4.3.                  *)
(***************************************************************************)
EXTENDS Integers, Sequences, FiniteSets, TLC

(* ------------------------------ bounds -------------------------------- *)

\* the backend commits versions 0..MaxRef of the tree
MaxRef == 1

\* segment names
Names == {"a", "b"}

\* request threads (the FUSE server dispatches each request on its own goroutine)
Threads == {"t1", "t2"}

(* ------------------------------ the tree ------------------------------ *)

NoNode == "nil"

Dirs == {"root", "d"}

Files == {"f", "g"}

Nodes == Dirs \cup Files

\* File.parent / Dir.parent: root <- d <- f, root <- g
parent == [n \in Nodes |-> CASE n = "root" -> NoNode
                             [] n = "d"    -> "root"
                             [] n = "f"    -> "d"
                             [] n = "g"    -> "root"]

\* the name every node is constructed with
InitName == [n \in Nodes |-> CASE n = "root" -> "a"
                               [] n = "d"    -> "b"
                               [] n = "f"    -> "a"
                               [] n = "g"    -> "b"]

\* position of a node in a Path that ends at it (the root is first)
RECURSIVE Depth(_)
Depth(n) == IF parent[n] = NoNode THEN 1 ELSE Depth(parent[n]) + 1

\* the opaque backend token of a segment: the backend's block of the segment at
\* position pos, as of version ver
Refs == [ver : 0..MaxRef, pos : {Depth(n) : n \in Nodes}]

\* libkbfs.PathNode
PathNodes == [Name : Names, Ref : Refs]

(* --------------------------- request values --------------------------- *)

Ops == {"Attr", "Read", "Write", "Fsync", "Flush", "Setattr"}

ReadOps == {"Attr", "Read"}

\* fuse.SetattrValid bits; Handle stands for SetattrLockOwner and SetattrHandle,
\* which Setattr clears in one statement, and Uid for every bit it does not handle
SetattrFields == {"Size", "Mode", "Mtime", "Atime", "Handle", "Uid"}

\* error values the backend may return
BackendErrs == {"EIO", "ENOENT"}

ENOSYS == "ENOSYS"

NoErr == "nil"

NoPath == << >>

VARIABLES
    pathNode,   \* pathNode[n]: the PathNode field of node n
    writer,     \* folder.mu: the thread holding it for writing, or NoNode
    readers,    \* folder.mu: the threads holding it for reading
    th,         \* th[t]: the request thread t
    kbfs,       \* the backend's entry of file f
    written,    \* what the successful Writes and Truncates on file f wrote
    otherRoot   \* the names in the root directory of the other Folder

vars == <<pathNode, writer, readers, th, kbfs, written, otherRoot>>

\* bound: the longest file content, write and read buffer
MaxLen == 2

\* the values of a byte; 0 is the zero byte
Bytes == 0..1

\* the backend's entry of file f where it is not followed
NoKbfs == [followed |-> FALSE, exists |-> TRUE, exec |-> FALSE, data |-> << >>]

\* the specification follows the content of the backend's entry of file f
Followed == kbfs.followed

\* the lengths, offsets and sizes of the requests and of the backend's
\* results: up to MaxLen where the backend's content is followed; where only
\* the lock and the paths are followed the requests carry no data
Lens == IF Followed THEN 0..MaxLen ELSE {0}

\* byte strings: the contents of files, req.Data, resp.Data
Datas == UNION {[1..n -> Bytes] : n \in Lens}

\* the values of req.Mode: 0644, 0755, 0744, 0655 where the backend's content
\* is followed
Modes == IF Followed THEN {420, 493, 484, 429} ELSE {420}

\* a.Mode = 0644
ModeRW == 420

\* a.Mode |= 0111
ExecBits == 73

\* req.Mode&0100
OwnerExec == 64

\* libkbfs.File, libkbfs.Exec: the entry types of a file
EntryTypes == {"File", "Exec"}

\* the DirEntry that statPath returns for a file
DirEntries == [Type : EntryTypes, Size : Lens]

\* no request fields read, no response written
None == [none |-> TRUE]

RECURSIVE BitOr(_, _)
\* a | b
BitOr(a, b) ==
    IF a = 0 THEN b
    ELSE IF b = 0 THEN a
    ELSE 2 * BitOr(a \div 2, b \div 2) + (IF a % 2 = 1 \/ b % 2 = 1 THEN 1 ELSE 0)

RECURSIVE BitAnd(_, _)
\* a & b
BitAnd(a, b) ==
    IF a = 0 \/ b = 0 THEN 0
    ELSE 2 * BitAnd(a \div 2, b \div 2) + (IF a % 2 = 1 /\ b % 2 = 1 THEN 1 ELSE 0)


(* ---------------------- path reconstruction --------------------------- *)

\* Dir.getPathLocked: the parent's Path (empty above the root) followed by
\* the Dir's own PathNode
RECURSIVE DirGetPathLocked(_, _)
DirGetPathLocked(pn, d) ==
    LET p == IF parent[d] = NoNode THEN << >> ELSE DirGetPathLocked(pn, parent[d])
    IN  Append(p, pn[d])

\* File.getPathLocked that puts its own PathNode in front of the parent's Path
FileGetPathPrepended(pn, f) ==
    LET p == DirGetPathLocked(pn, parent[f])
    IN  <<pn[f]>> \o p

\* File.getPathLocked
FileGetPathLocked(pn, f) ==
    LET p == DirGetPathLocked(pn, parent[f])
    IN  Append(p, pn[f])

(* ------------------------- path propagation --------------------------- *)

\* Dir.updatePathLocked
RECURSIVE DirUpdatePathLocked(_, _, _)
DirUpdatePathLocked(pn, d, p) ==
    LET pNode == p[Len(p)]
    IN  IF pn[d].Name # pNode.Name
        THEN pn
        ELSE LET pn1 == [pn EXCEPT ![d] = pNode]
             IN  IF parent[d] = NoNode
                 THEN pn1
                 ELSE DirUpdatePathLocked(pn1, parent[d], SubSeq(p, 1, Len(p) - 1))

\* File.updatePathLocked that stores its own PathNode and leaves the parents alone
FileUpdateNoParent(pn, f, p) ==
    LET pNode == p[Len(p)]
    IN  IF pn[f].Name # pNode.Name THEN pn ELSE [pn EXCEPT ![f] = pNode]

\* File.updatePathLocked without the name check
FileUpdateUnchecked(pn, f, p) ==
    LET pNode == p[Len(p)]
        pn1 == [pn EXCEPT ![f] = pNode]
    IN  DirUpdatePathLocked(pn1, parent[f], SubSeq(p, 1, Len(p) - 1))

\* File.updatePathLocked that hands the parent the Path with its last element
\* still on it
FileUpdateUnstripped(pn, f, p) ==
    LET pNode == p[Len(p)]
    IN  IF pn[f].Name # pNode.Name
        THEN pn
        ELSE LET pn1 == [pn EXCEPT ![f] = pNode]
             IN  DirUpdatePathLocked(pn1, parent[f], p)

\* File.updatePathLocked with the comparison of the names turned round: it
\* returns when they are equal and stores the PathNode when they differ
FileUpdateOnOtherName(pn, f, p) ==
    LET pNode == p[Len(p)]
    IN  IF pn[f].Name = pNode.Name
        THEN pn
        ELSE LET pn1 == [pn EXCEPT ![f] = pNode]
             IN  DirUpdatePathLocked(pn1, parent[f], SubSeq(p, 1, Len(p) - 1))

\* File.updatePathLocked
FileUpdatePathLocked(pn, f, p) ==
    LET pNode == p[Len(p)]
    IN  IF pn[f].Name # pNode.Name
        THEN pn
        ELSE LET pn1 == [pn EXCEPT ![f] = pNode]
             IN  DirUpdatePathLocked(pn1, parent[f], SubSeq(p, 1, Len(p) - 1))

(* ------------------------------ backend ------------------------------- *)

\* the Paths a backend call given a Path of length n may return: any names,
\* and the blocks of one version
BackendPaths(n) ==
    {[i \in 1..n |-> [Name |-> nm[i], Ref |-> [ver |-> v, pos |-> i]]] :
        nm \in [1..n -> Names], v \in 0..MaxRef}

\* KBFSOps calls that return the new Path of the entity
PathCalls == {"Sync", "SetEx", "SetMtime"}

(* ------------------------------ threads ------------------------------- *)

Idle ==
    [pc |-> "idle", op |-> "none", file |-> NoNode, req |-> {}, valid |-> {},
     cur |-> "none", arg |-> NoPath, p |-> NoPath, berr |-> "none",
     ret |-> "none", calls |-> << >>, rq |-> None, barg |-> None, resp |-> None]

\* the thread holds folder.mu
HoldsRead(t) == t \in readers

HoldsWrite(t) == writer = t

Holds(t) == HoldsRead(t) \/ HoldsWrite(t)

Init ==
    /\ pathNode \in [Nodes -> PathNodes]
    /\ \A n \in Nodes : pathNode[n].Name = InitName[n]
    /\ \A n \in Nodes : pathNode[n].Ref = [ver |-> 0, pos |-> Depth(n)]
    /\ writer = NoNode
    /\ readers = {}
    /\ th = [t \in Threads |-> Idle]
    /\ kbfs = NoKbfs
    /\ written = << >>
    /\ otherRoot = {}

\* a request for op on file f arrives on a thread and reaches the handler's
\* first statement, the lock call
Start(t) ==
    /\ th[t].pc = "idle"
    /\ \E o \in Ops, f \in Files :
          th' = [th EXCEPT ![t] = [Idle EXCEPT !.pc = "lock", !.op = o, !.file = f]]
    /\ UNCHANGED <<pathNode, writer, readers>>

\* folder.mu.RLock()
MuRLock(t) ==
    /\ writer = NoNode
    /\ readers' = readers \cup {t}
    /\ UNCHANGED writer

\* folder.mu.Lock() that does not wait for the readers to leave
MuLockOverReaders(t) ==
    /\ writer = NoNode
    /\ writer' = t
    /\ UNCHANGED readers

\* folder.mu.Lock()
MuLock(t) ==
    /\ writer = NoNode
    /\ readers = {}
    /\ writer' = t
    /\ UNCHANGED readers

\* folder.mu.RUnlock()
MuRUnlock(t) ==
    /\ readers' = readers \ {t}
    /\ UNCHANGED writer

\* folder.mu.Unlock()
MuUnlock(t) ==
    /\ writer' = IF writer = t THEN NoNode ELSE writer
    /\ UNCHANGED readers

\* the statement after the lock call of each handler
FirstPc(o) == IF o = "Setattr" THEN "sa_valid" ELSE "call"

\* f.parent.folder.mu.RLock() (Attr, Read)
RLock(t) ==
    /\ th[t].pc = "lock"
    /\ MuRLock(t)
    /\ th' = [th EXCEPT ![t].pc = FirstPc(th[t].op)]
    /\ UNCHANGED pathNode

\* f.parent.folder.mu.Lock() (Write, sync, Setattr)
Lock(t) ==
    /\ th[t].pc = "lock"
    /\ MuLock(t)
    /\ th' = [th EXCEPT ![t].pc = FirstPc(th[t].op)]
    /\ UNCHANGED pathNode

\* defer f.parent.folder.mu.RUnlock(): runs as the handler returns th[t].ret;
\* the thread is then free for the next request
RUnlock(t) ==
    /\ th[t].pc = "unlock"
    /\ MuRUnlock(t)
    /\ th' = [th EXCEPT ![t] = Idle]
    /\ UNCHANGED pathNode

\* an unlock written at the normal return alone: a handler that returns an
\* error keeps folder.mu
UnlockOnNilOnly(t) ==
    /\ th[t].pc = "unlock"
    /\ IF th[t].ret = NoErr THEN MuUnlock(t) ELSE UNCHANGED <<writer, readers>>
    /\ th' = [th EXCEPT ![t] = Idle]
    /\ UNCHANGED pathNode

\* defer f.parent.folder.mu.Unlock(): runs as the handler returns th[t].ret;
\* the thread is then free for the next request
Unlock(t) ==
    /\ th[t].pc = "unlock"
    /\ MuUnlock(t)
    /\ th' = [th EXCEPT ![t] = Idle]
    /\ UNCHANGED pathNode

\* a backend call is entered with the Path reconstructed now
EnterBackend(t, call) ==
    th' = [th EXCEPT ![t].pc = "wait", ![t].cur = call,
                     ![t].arg = FileGetPathLocked(pathNode, th[t].file),
                     ![t].calls = Append(@, call)]

\* a backend call is entered with the Path reconstructed now and the
\* arguments b; r is what the handler read of its request
CallBackend(t, call, r, b) ==
    th' = [th EXCEPT ![t].pc = "wait", ![t].cur = call,
                     ![t].arg = FileGetPathLocked(pathNode, th[t].file),
                     ![t].calls = Append(@, call), ![t].rq = r, ![t].barg = b]

\* the backend call returned the error e and the handler returns it (return err):
\* the deferred unlock is what is left to run
ReturnErr(t, e) ==
    th' = [th EXCEPT ![t].pc = "unlock", ![t].berr = e, ![t].ret = e,
                     ![t].cur = "none", ![t].arg = NoPath, ![t].barg = None]

\* the backend call succeeded and the handler returns nil
ReturnNil(t) ==
    th' = [th EXCEPT ![t].pc = "unlock", ![t].ret = NoErr, ![t].cur = "none",
                     ![t].arg = NoPath, ![t].barg = None]

\* a call that returns a Path has returned it: the handler holds it in p
GotPath(t, np) ==
    th' = [th EXCEPT ![t].pc = "update", ![t].p = np, ![t].arg = NoPath,
                     ![t].barg = None]

\* f.updatePathLocked(p)
Propagate(t) ==
    pathNode' = FileUpdatePathLocked(pathNode, th[t].file, th[t].p)

(* -------------------------------- Attr -------------------------------- *)

\* p := f.getPathLocked(); statPath(ctx, KBFSOps(), p)
AttrStat(t) ==
    /\ th[t].pc = "call"
    /\ EnterBackend(t, "Stat")
    /\ UNCHANGED <<pathNode, writer, readers>>

\* fillAttr(de, a); a.Mode = 0644; if de.Type == libkbfs.Exec { a.Mode |= 0111 }
AttrOf(de) ==
    [Size |-> de.Size,
     Mode |-> IF de.Type = "Exec" THEN BitOr(ModeRW, ExecBits) ELSE ModeRW]

\* Attr copying the permission bits of a regular file for every entry type
AttrStatReturnModeFixed(t) ==
    /\ th[t].pc = "wait"
    /\ th[t].cur = "Stat"
    /\ \/ \E e \in BackendErrs : ReturnErr(t, e)
       \/ \E de \in DirEntries :
             th' = [th EXCEPT ![t].pc = "unlock", ![t].ret = NoErr, ![t].cur = "none",
                              ![t].arg = NoPath, ![t].rq = de,
                              ![t].resp = [Size |-> de.Size, Mode |-> ModeRW]]
    /\ UNCHANGED <<pathNode, writer, readers>>

\* de, err := statPath(...); err != nil: return err; else fillAttr(de, a),
\* a.Mode, return nil. rq keeps the DirEntry de the backend returned.
AttrStatReturn(t) ==
    /\ th[t].pc = "wait"
    /\ th[t].cur = "Stat"
    /\ \/ \E e \in BackendErrs : ReturnErr(t, e)
       \/ \E de \in DirEntries :
             th' = [th EXCEPT ![t].pc = "unlock", ![t].ret = NoErr, ![t].cur = "none",
                              ![t].arg = NoPath, ![t].rq = de, ![t].resp = AttrOf(de)]
    /\ UNCHANGED <<pathNode, writer, readers>>

Attr(t) ==
    /\ th[t].op = "Attr"
    /\ (RLock(t) \/ AttrStat(t) \/ AttrStatReturn(t) \/ RUnlock(t))

(* -------------------------------- Read -------------------------------- *)

\* the requests of Read: cap(resp.Data) and req.Offset
ReadReqs == [Cap : Lens, Offset : Lens]

\* p := f.getPathLocked(); KBFSOps().Read(ctx, p, resp.Data[:cap], req.Offset):
\* the request's fields are read here
ReadCall(t) ==
    /\ th[t].pc = "call"
    /\ \E r \in ReadReqs : CallBackend(t, "Read", r, r)
    /\ UNCHANGED <<pathNode, writer, readers>>

\* what the backend's Read returns for a buffer of cap bytes: the count n, the
\* n bytes it put at the start of the buffer, and the error
ReadResults(cap) ==
    UNION {[N : {n}, Data : [1..n -> Bytes], Err : BackendErrs \cup {NoErr}] : n \in 0..cap}

\* resp.Data[:cap(resp.Data)] after the call: the bytes the backend put there,
\* then the zero bytes of the fresh buffer
BufferAfter(r, cap) == [i \in 1..cap |-> IF i <= r.N THEN r.Data[i] ELSE 0]

\* the handler's return after the backend's Read returned r: rq keeps the
\* request and the count n the backend returned
ReadReturned(t, r, data) ==
    th' = [th EXCEPT ![t].pc = "unlock", ![t].cur = "none", ![t].arg = NoPath,
                     ![t].barg = None,
                     ![t].berr = IF r.Err = NoErr THEN "none" ELSE r.Err,
                     ![t].ret = r.Err,
                     ![t].rq = [Cap |-> @.Cap, Offset |-> @.Offset, N |-> r.N],
                     ![t].resp = [Data |-> data]]

\* Read handing back the whole buffer whatever the count
ReadReturnWholeBuffer(t) ==
    /\ th[t].pc = "wait"
    /\ th[t].cur = "Read"
    /\ \E r \in ReadResults(th[t].barg.Cap) : ReadReturned(t, r, BufferAfter(r, th[t].barg.Cap))
    /\ UNCHANGED <<pathNode, writer, readers>>

\* n, err := ...Read(...); resp.Data = resp.Data[:n]; return err
ReadReturn(t) ==
    /\ th[t].pc = "wait"
    /\ th[t].cur = "Read"
    /\ \E r \in ReadResults(th[t].barg.Cap) :
          ReadReturned(t, r, SubSeq(BufferAfter(r, th[t].barg.Cap), 1, r.N))
    /\ UNCHANGED <<pathNode, writer, readers>>

Read(t) ==
    /\ th[t].op = "Read"
    /\ (RLock(t) \/ ReadCall(t) \/ ReadReturn(t) \/ RUnlock(t))

(* -------------------------------- Write ------------------------------- *)

\* the requests of Write: req.Data and req.Offset, ending within MaxLen
WriteReqs == {r \in [Data : Datas, Offset : Lens] : r.Offset + Len(r.Data) <= MaxLen}

\* Write handing the data to the backend at offset 0
WriteCallAtStart(t) ==
    /\ th[t].pc = "call"
    /\ \E r \in WriteReqs : CallBackend(t, "Write", r, [r EXCEPT !.Offset = 0])
    /\ UNCHANGED <<pathNode, writer, readers>>

\* p := f.getPathLocked(); KBFSOps().Write(ctx, p, req.Data, req.Offset):
\* the request's fields are read here
WriteCall(t) ==
    /\ th[t].pc = "call"
    /\ \E r \in WriteReqs : CallBackend(t, "Write", r, r)
    /\ UNCHANGED <<pathNode, writer, readers>>

\* Write filling in resp.Size before it looks at the error
WriteReturnSizeFirst(t) ==
    /\ th[t].pc = "wait"
    /\ th[t].cur = "Write"
    /\ \/ \E e \in BackendErrs :
             th' = [th EXCEPT ![t].pc = "unlock", ![t].berr = e, ![t].ret = e,
                              ![t].cur = "none", ![t].arg = NoPath, ![t].barg = None,
                              ![t].resp = [Size |-> Len(th[t].rq.Data)]]
       \/ th' = [th EXCEPT ![t].pc = "unlock", ![t].ret = NoErr, ![t].cur = "none",
                           ![t].arg = NoPath, ![t].barg = None,
                           ![t].resp = [Size |-> Len(th[t].rq.Data)]]
    /\ UNCHANGED <<pathNode, writer, readers>>

\* Write returning nil and the size whatever the backend returned
WriteReturnErrDropped(t) ==
    /\ th[t].pc = "wait"
    /\ th[t].cur = "Write"
    /\ \/ \E e \in BackendErrs :
             th' = [th EXCEPT ![t].pc = "unlock", ![t].berr = e, ![t].ret = NoErr,
                              ![t].cur = "none", ![t].arg = NoPath, ![t].barg = None,
                              ![t].resp = [Size |-> Len(th[t].rq.Data)]]
       \/ th' = [th EXCEPT ![t].pc = "unlock", ![t].ret = NoErr, ![t].cur = "none",
                           ![t].arg = NoPath, ![t].barg = None,
                           ![t].resp = [Size |-> Len(th[t].rq.Data)]]
    /\ UNCHANGED <<pathNode, writer, readers>>

\* Write that propagates a Path of the written File as sync does
WriteReturnPropagating(t) ==
    /\ th[t].pc = "wait"
    /\ th[t].cur = "Write"
    /\ \/ /\ \E e \in BackendErrs : ReturnErr(t, e)
          /\ UNCHANGED pathNode
       \/ /\ th' = [th EXCEPT ![t].pc = "unlock", ![t].ret = NoErr, ![t].cur = "none",
                              ![t].arg = NoPath, ![t].barg = None,
                              ![t].resp = [Size |-> Len(th[t].rq.Data)]]
          /\ \E np \in BackendPaths(Len(th[t].arg)) :
                pathNode' = FileUpdatePathLocked(pathNode, th[t].file, np)
    /\ UNCHANGED <<writer, readers>>

\* err != nil: return err; else resp.Size = len(req.Data); return nil
WriteReturn(t) ==
    /\ th[t].pc = "wait"
    /\ th[t].cur = "Write"
    /\ \/ \E e \in BackendErrs : ReturnErr(t, e)
       \/ th' = [th EXCEPT ![t].pc = "unlock", ![t].ret = NoErr, ![t].cur = "none",
                           ![t].arg = NoPath, ![t].barg = None,
                           ![t].resp = [Size |-> Len(th[t].rq.Data)]]
    /\ UNCHANGED <<pathNode, writer, readers>>

Write(t) ==
    /\ th[t].op = "Write"
    /\ (Lock(t) \/ WriteCall(t) \/ WriteReturn(t) \/ Unlock(t))

(* ---------------------------- sync, Fsync, Flush ---------------------- *)

\* sync letting go of the lock for the time of the backend call
SyncCallUnlocked(t) ==
    /\ th[t].pc = "call"
    /\ EnterBackend(t, "Sync")
    /\ MuUnlock(t)
    /\ UNCHANGED pathNode

\* KBFSOps().Sync(ctx, f.getPathLocked())
SyncCall(t) ==
    /\ th[t].pc = "call"
    /\ EnterBackend(t, "Sync")
    /\ UNCHANGED <<pathNode, writer, readers>>

\* sync letting go of the lock when Sync returns, before it propagates
SyncReturnUnlocking(t) ==
    /\ th[t].pc = "wait"
    /\ th[t].cur = "Sync"
    /\ \/ /\ \E e \in BackendErrs : ReturnErr(t, e)
          /\ UNCHANGED <<writer, readers>>
       \/ /\ \E np \in BackendPaths(Len(th[t].arg)) : GotPath(t, np)
          /\ MuUnlock(t)
    /\ UNCHANGED pathNode

\* p, err := ...Sync(...); err != nil: return err
SyncReturn(t) ==
    /\ th[t].pc = "wait"
    /\ th[t].cur = "Sync"
    /\ \/ \E e \in BackendErrs : ReturnErr(t, e)
       \/ \E np \in BackendPaths(Len(th[t].arg)) : GotPath(t, np)
    /\ UNCHANGED <<pathNode, writer, readers>>

\* f.updatePathLocked(p); return nil
SyncUpdate(t) ==
    /\ th[t].pc = "update"
    /\ th[t].cur = "Sync"
    /\ Propagate(t)
    /\ th' = [th EXCEPT ![t].pc = "unlock", ![t].ret = NoErr, ![t].cur = "none"]
    /\ UNCHANGED <<writer, readers>>

\* sync taking the lock for reading
syncRLocked(t) ==
    RLock(t) \/ SyncCall(t) \/ SyncReturn(t) \/ SyncUpdate(t) \/ RUnlock(t)

sync(t) ==
    Lock(t) \/ SyncCall(t) \/ SyncReturn(t) \/ SyncUpdate(t) \/ Unlock(t)

\* return f.sync(ctx)
Fsync(t) ==
    /\ th[t].op = "Fsync"
    /\ sync(t)

\* Flush that returns nil without committing
FlushNoop(t) ==
    /\ th[t].op = "Flush"
    /\ \/ Lock(t)
       \/ /\ th[t].pc = "call"
          /\ ReturnNil(t)
          /\ UNCHANGED <<pathNode, writer, readers>>
       \/ Unlock(t)

\* return f.sync(ctx)
Flush(t) ==
    /\ th[t].op = "Flush"
    /\ sync(t)

(* ------------------------------- Setattr ------------------------------ *)

\* Setattr that turns down a request with a bit it does not handle before
\* it applies any field
SetattrValidRejecting(t) ==
    /\ th[t].pc = "sa_valid"
    /\ \E v \in SUBSET SetattrFields :
          IF "Uid" \in v
          THEN th' = [th EXCEPT ![t].pc = "unlock", ![t].req = v, ![t].valid = v,
                               ![t].ret = ENOSYS]
          ELSE th' = [th EXCEPT ![t].pc = "sa_size", ![t].req = v, ![t].valid = v]
    /\ UNCHANGED <<pathNode, writer, readers>>

\* valid := req.Valid: the request's field set req.Valid is read here
SetattrValid(t) ==
    /\ th[t].pc = "sa_valid"
    /\ \E v \in SUBSET SetattrFields :
          th' = [th EXCEPT ![t].pc = "sa_size", ![t].req = v, ![t].valid = v]
    /\ UNCHANGED <<pathNode, writer, readers>>

\* Setattr truncating to the size 0 whatever size is asked for
SetattrSizeToZero(t) ==
    /\ th[t].pc = "sa_size"
    /\ IF "Size" \in th[t].valid
       THEN \E sz \in Lens : CallBackend(t, "Truncate", [Size |-> sz], [Size |-> 0])
       ELSE th' = [th EXCEPT ![t].pc = "sa_mode"]
    /\ UNCHANGED <<pathNode, writer, readers>>

\* if valid.Size() { KBFSOps().Truncate(ctx, f.getPathLocked(), req.Size) ...
SetattrSize(t) ==
    /\ th[t].pc = "sa_size"
    /\ IF "Size" \in th[t].valid
       THEN \E sz \in Lens : CallBackend(t, "Truncate", [Size |-> sz], [Size |-> sz])
       ELSE th' = [th EXCEPT ![t].pc = "sa_mode"]
    /\ UNCHANGED <<pathNode, writer, readers>>

\* the size step going on after a failed Truncate
SetattrSizeErrIgnored(t) ==
    /\ th[t].pc = "wait"
    /\ th[t].cur = "Truncate"
    /\ \/ \E e \in BackendErrs :
             th' = [th EXCEPT ![t].pc = "sa_mode", ![t].berr = e, ![t].cur = "none",
                              ![t].arg = NoPath, ![t].valid = @ \ {"Size"}]
       \/ th' = [th EXCEPT ![t].pc = "sa_mode", ![t].cur = "none",
                           ![t].arg = NoPath, ![t].valid = @ \ {"Size"}]
    /\ UNCHANGED <<pathNode, writer, readers>>

\* err != nil: return err; else valid &^= fuse.SetattrSize
SetattrSizeReturn(t) ==
    /\ th[t].pc = "wait"
    /\ th[t].cur = "Truncate"
    /\ \/ \E e \in BackendErrs : ReturnErr(t, e)
       \/ th' = [th EXCEPT ![t].pc = "sa_mode", ![t].cur = "none",
                           ![t].arg = NoPath, ![t].barg = None, ![t].rq = None,
                           ![t].valid = @ \ {"Size"}]
    /\ UNCHANGED <<pathNode, writer, readers>>

\* Setattr that clears the mode bit without calling SetEx
SetattrModeSkipped(t) ==
    /\ th[t].pc = "sa_mode"
    /\ th' = [th EXCEPT ![t].pc = "sa_mtime", ![t].valid = @ \ {"Mode"}]
    /\ UNCHANGED <<pathNode, writer, readers>>

\* Setattr taking any of the three execute bits of the mode for the flag
SetattrModeAnyExecBit(t) ==
    /\ th[t].pc = "sa_mode"
    /\ IF "Mode" \in th[t].valid
       THEN \E m \in Modes :
               CallBackend(t, "SetEx", [Mode |-> m], [Exec |-> BitAnd(m, ExecBits) # 0])
       ELSE th' = [th EXCEPT ![t].pc = "sa_mtime"]
    /\ UNCHANGED <<pathNode, writer, readers>>

\* if valid.Mode() { exec := req.Mode&0100 != 0;
\* p, err := KBFSOps().SetEx(ctx, f.getPathLocked(), exec) ...
SetattrMode(t) ==
    /\ th[t].pc = "sa_mode"
    /\ IF "Mode" \in th[t].valid
       THEN \E m \in Modes :
               CallBackend(t, "SetEx", [Mode |-> m], [Exec |-> BitAnd(m, OwnerExec) # 0])
       ELSE th' = [th EXCEPT ![t].pc = "sa_mtime"]
    /\ UNCHANGED <<pathNode, writer, readers>>

\* err != nil: return err
SetattrModeReturn(t) ==
    /\ th[t].pc = "wait"
    /\ th[t].cur = "SetEx"
    /\ \/ \E e \in BackendErrs : ReturnErr(t, e)
       \/ \E np \in BackendPaths(Len(th[t].arg)) : GotPath(t, np)
    /\ UNCHANGED <<pathNode, writer, readers>>

\* f.updatePathLocked(p); valid &^= fuse.SetattrMode; p's block ends
SetattrModeUpdate(t) ==
    /\ th[t].pc = "update"
    /\ th[t].cur = "SetEx"
    /\ Propagate(t)
    /\ th' = [th EXCEPT ![t].pc = "sa_mtime", ![t].cur = "none", ![t].p = NoPath,
                        ![t].rq = None, ![t].valid = @ \ {"Mode"}]
    /\ UNCHANGED <<writer, readers>>

\* Setattr handing to SetMtime the Path of the File as it was constructed,
\* reconstructed once and kept
SetattrMtimeMemoized(t) ==
    /\ th[t].pc = "sa_mtime"
    /\ IF "Mtime" \in th[t].valid
       THEN th' = [th EXCEPT ![t].pc = "wait", ![t].cur = "SetMtime",
                             ![t].arg = [i \in 1..Len(FileGetPathLocked(pathNode, th[t].file)) |->
                                            [FileGetPathLocked(pathNode, th[t].file)[i]
                                                EXCEPT !.Ref.ver = 0]],
                             ![t].calls = Append(@, "SetMtime")]
       ELSE th' = [th EXCEPT ![t].pc = "sa_rest"]
    /\ UNCHANGED <<pathNode, writer, readers>>

\* if valid.Mtime() { p, err := KBFSOps().SetMtime(ctx, f.getPathLocked(), &req.Mtime) ...
SetattrMtime(t) ==
    /\ th[t].pc = "sa_mtime"
    /\ IF "Mtime" \in th[t].valid
       THEN EnterBackend(t, "SetMtime")
       ELSE th' = [th EXCEPT ![t].pc = "sa_rest"]
    /\ UNCHANGED <<pathNode, writer, readers>>

\* a failed SetMtime that takes back the PathNode the File stored before it
SetattrMtimeReturnUndoing(t) ==
    /\ th[t].pc = "wait"
    /\ th[t].cur = "SetMtime"
    /\ \/ /\ \E e \in BackendErrs : ReturnErr(t, e)
          /\ pathNode' = [pathNode EXCEPT ![th[t].file].Ref.ver = 0]
       \/ /\ \E np \in BackendPaths(Len(th[t].arg)) : GotPath(t, np)
          /\ UNCHANGED pathNode
    /\ UNCHANGED <<writer, readers>>

\* err != nil: return err
SetattrMtimeReturn(t) ==
    /\ th[t].pc = "wait"
    /\ th[t].cur = "SetMtime"
    /\ \/ \E e \in BackendErrs : ReturnErr(t, e)
       \/ \E np \in BackendPaths(Len(th[t].arg)) : GotPath(t, np)
    /\ UNCHANGED <<pathNode, writer, readers>>

\* the modification-time step without its f.updatePathLocked(p)
SetattrMtimeNoUpdate(t) ==
    /\ th[t].pc = "update"
    /\ th[t].cur = "SetMtime"
    /\ th' = [th EXCEPT ![t].pc = "sa_rest", ![t].cur = "none", ![t].p = NoPath,
                        ![t].valid = @ \ {"Mtime"}]
    /\ UNCHANGED <<pathNode, writer, readers>>

\* f.updatePathLocked(p); valid &^= fuse.SetattrMtime; p's block ends
SetattrMtimeUpdate(t) ==
    /\ th[t].pc = "update"
    /\ th[t].cur = "SetMtime"
    /\ Propagate(t)
    /\ th' = [th EXCEPT ![t].pc = "sa_rest", ![t].cur = "none", ![t].p = NoPath,
                        ![t].valid = @ \ {"Mtime"}]
    /\ UNCHANGED <<writer, readers>>

\* the end of Setattr clearing every bit that is left
SetattrRestAllCleared(t) ==
    /\ th[t].pc = "sa_rest"
    /\ th' = [th EXCEPT ![t].pc = "unlock", ![t].valid = {}, ![t].ret = NoErr]
    /\ UNCHANGED <<pathNode, writer, readers>>

\* the end of Setattr without valid &^= fuse.SetattrAtime
SetattrRestAtimeKept(t) ==
    /\ th[t].pc = "sa_rest"
    /\ LET v == th[t].valid \ {"LockOwner", "Handle"}
       IN  th' = [th EXCEPT ![t].pc = "unlock", ![t].valid = v,
                            ![t].ret = IF v # {} THEN ENOSYS ELSE NoErr]
    /\ UNCHANGED <<pathNode, writer, readers>>

\* valid &^= SetattrAtime; valid &^= SetattrLockOwner | SetattrHandle;
\* if valid != 0 { return fuse.ENOSYS }; return nil
SetattrRest(t) ==
    /\ th[t].pc = "sa_rest"
    /\ LET v == th[t].valid \ {"Atime", "LockOwner", "Handle"}
       IN  th' = [th EXCEPT ![t].pc = "unlock", ![t].valid = v,
                            ![t].ret = IF v # {} THEN ENOSYS ELSE NoErr]
    /\ UNCHANGED <<pathNode, writer, readers>>

Setattr(t) ==
    /\ th[t].op = "Setattr"
    /\ \/ Lock(t)
       \/ SetattrValid(t)
       \/ SetattrSize(t) \/ SetattrSizeReturn(t)
       \/ SetattrMode(t) \/ SetattrModeReturn(t) \/ SetattrModeUpdate(t)
       \/ SetattrMtime(t) \/ SetattrMtimeReturn(t) \/ SetattrMtimeUpdate(t)
       \/ SetattrRest(t)
       \/ Unlock(t)

(* ------------------------------ the system ---------------------------- *)

\* what the backend stores is not followed: each of its calls returns any
\* result of its signature
Unfollowed == UNCHANGED <<kbfs, written, otherRoot>>

\* the handlers of File on every thread
Next ==
    \E t \in Threads :
        \/ Start(t) /\ Unfollowed
        \/ Attr(t) /\ Unfollowed
        \/ Read(t) /\ Unfollowed
        \/ Write(t) /\ Unfollowed
        \/ Fsync(t) /\ Unfollowed
        \/ Flush(t) /\ Unfollowed
        \/ Setattr(t) /\ Unfollowed

Spec == Init /\ [][Next]_vars

(* ------------------------- Dir.Remove (collaborator) ------------------- *)

\* a request to remove the file f from its directory arrives on a thread
StartRemove(t) ==
    /\ th[t].pc = "idle"
    /\ \E f \in Files :
          th' = [th EXCEPT ![t] = [Idle EXCEPT !.pc = "lock", !.op = "Remove", !.file = f]]
    /\ UNCHANGED <<pathNode, writer, readers>>

\* the backend is asked to remove the entry at the file's Path
RemoveCall(t) ==
    /\ th[t].pc = "call"
    /\ EnterBackend(t, "RemoveEntry")
    /\ UNCHANGED <<pathNode, writer, readers>>

\* the backend returns an error or the directory's new Path
RemoveReturn(t) ==
    /\ th[t].pc = "wait"
    /\ th[t].cur = "RemoveEntry"
    /\ \/ \E e \in BackendErrs : ReturnErr(t, e)
       \/ \E np \in BackendPaths(Len(th[t].arg) - 1) : GotPath(t, np)
    /\ UNCHANGED <<pathNode, writer, readers>>

\* the directory propagates its new Path; the File node is left as it is
RemoveUpdate(t) ==
    /\ th[t].pc = "update"
    /\ th[t].cur = "RemoveEntry"
    /\ pathNode' = DirUpdatePathLocked(pathNode, parent[th[t].file], th[t].p)
    /\ th' = [th EXCEPT ![t].pc = "unlock", ![t].ret = NoErr, ![t].cur = "none"]
    /\ UNCHANGED <<writer, readers>>

\* Dir.Remove: under the write lock of the folder
DirRemove(t) ==
    /\ th[t].op = "Remove"
    /\ (Lock(t) \/ RemoveCall(t) \/ RemoveReturn(t) \/ RemoveUpdate(t) \/ Unlock(t))

(* ------------------------- Dir.Rename (collaborator) ------------------- *)

\* the root directory of another Folder
OtherDir == "x"

\* the Folder of a directory
FolderOf(d) == IF d = OtherDir THEN "B" ELSE "A"

\* the requests of Rename for file f: the new directory, the file's own or
\* the root of the other Folder, and the new name
RenameReqs(f) == [NewDir : {parent[f], OtherDir}, NewName : Names]

\* a request to rename the file f arrives on a thread
StartRename(t) ==
    /\ th[t].pc = "idle"
    /\ \E f \in Files :
          th' = [th EXCEPT ![t] = [Idle EXCEPT !.pc = "lock", !.op = "Rename", !.file = f]]
    /\ UNCHANGED <<pathNode, writer, readers>>

\* Rename handing every request to the backend
RenameCallAnyFolder(t) ==
    /\ th[t].pc = "call"
    /\ \E r \in RenameReqs(th[t].file) : CallBackend(t, "Rename", r, r)
    /\ UNCHANGED <<pathNode, writer, readers>>

\* a new directory of another Folder is turned down with the cross-device
\* error before any backend call; else the backend is asked to rename
RenameCall(t) ==
    /\ th[t].pc = "call"
    /\ \E r \in RenameReqs(th[t].file) :
          IF FolderOf(r.NewDir) # FolderOf(parent[th[t].file])
          THEN th' = [th EXCEPT ![t].pc = "unlock", ![t].ret = "EXDEV", ![t].rq = r]
          ELSE CallBackend(t, "Rename", r, r)
    /\ UNCHANGED <<pathNode, writer, readers>>

\* the backend returns an error or the directory's new Path
RenameReturn(t) ==
    /\ th[t].pc = "wait"
    /\ th[t].cur = "Rename"
    /\ \/ \E e \in BackendErrs : ReturnErr(t, e)
       \/ \E np \in BackendPaths(Len(th[t].arg) - 1) : GotPath(t, np)
    /\ UNCHANGED <<pathNode, writer, readers>>

\* the directory propagates its new Path; the File node is left as it is
RenameUpdate(t) ==
    /\ th[t].pc = "update"
    /\ th[t].cur = "Rename"
    /\ pathNode' = DirUpdatePathLocked(pathNode, parent[th[t].file], th[t].p)
    /\ th' = [th EXCEPT ![t].pc = "unlock", ![t].ret = NoErr, ![t].cur = "none"]
    /\ UNCHANGED <<writer, readers>>

\* Dir.Rename: under the write lock of the folder
DirRename(t) ==
    /\ th[t].op = "Rename"
    /\ (Lock(t) \/ RenameCall(t) \/ RenameReturn(t) \/ RenameUpdate(t) \/ Unlock(t))

(* ------------------------------ the backend ---------------------------- *)

\* the names of a Path
PathNames(p) == [i \in 1..Len(p) |-> p[i].Name]

\* the names of the Path of file f
FKey == <<InitName["root"], InitName["d"], InitName["f"]>>

\* the backend's entry of file f after its creation: there, not executable,
\* empty
KbfsInit == [followed |-> TRUE, exists |-> TRUE, exec |-> FALSE, data |-> << >>]

\* the backend's entry once removed
KbfsRemoved == [followed |-> TRUE, exists |-> FALSE, exec |-> FALSE, data |-> << >>]

\* the content d after the bytes w were written at offset off: a gap between
\* the end of d and off is filled with zero bytes
Overwrite(d, off, w) ==
    [i \in 1..(IF off + Len(w) > Len(d) THEN off + Len(w) ELSE Len(d)) |->
        IF i > off /\ i <= off + Len(w) THEN w[i - off]
        ELSE IF i <= Len(d) THEN d[i] ELSE 0]

\* the content d cut or zero-padded to n bytes
Resize(d, n) == [i \in 1..n |-> IF i <= Len(d) THEN d[i] ELSE 0]

\* the bytes of d a Read of cap bytes at offset off returns
Slice(d, off, cap) ==
    IF off >= Len(d) \/ cap = 0 THEN << >>
    ELSE SubSeq(d, off + 1, IF off + cap > Len(d) THEN Len(d) ELSE off + cap)

\* the backend call that returns in this step of thread t returns an error
Failed(t) == th'[t].berr # "none"

\* a Path the backend returns names the entry it was called for
SamePath(t) ==
    th'[t].pc = "update" =>
        PathNames(th'[t].p) = SubSeq(PathNames(th[t].arg), 1, Len(th'[t].p))

\* the call c on the removed entry of f returns: mutating calls fail with an
\* I/O error, Stat, Read and RemoveEntry with no-such-entry; Sync has
\* nothing to commit
ReturnOnRemoved(t, c) ==
    /\ c \in {"Write", "Truncate", "SetEx", "SetMtime"} =>
          (Failed(t) /\ th'[t].berr = "EIO")
    /\ c \in {"Stat", "Read", "RemoveEntry", "Rename"} =>
          (Failed(t) /\ th'[t].berr = "ENOENT")
    /\ c = "Read" => th'[t].rq.N = 0
    /\ SamePath(t)
    /\ UNCHANGED kbfs

\* the call c on the entry of f returns: an error and no change, or its
\* result on the content as it is and its effect
ReturnOnEntry(t, c) ==
    \/ /\ Failed(t)
       /\ c = "Read" => th'[t].rq.N = 0
       /\ UNCHANGED kbfs
    \/ /\ ~Failed(t)
       /\ SamePath(t)
       /\ c = "Stat" =>
             th'[t].rq = [Type |-> IF kbfs.exec THEN "Exec" ELSE "File",
                          Size |-> Len(kbfs.data)]
       /\ c = "Read" =>
             LET d == Slice(kbfs.data, th[t].barg.Offset, th[t].barg.Cap)
             IN  /\ th'[t].rq.N = Len(d)
                 /\ \A i \in 1..Len(d) : th'[t].resp.Data[i] = d[i]
       /\ kbfs' = CASE c = "Write" ->
                         [kbfs EXCEPT !.data = Overwrite(@, th[t].barg.Offset, th[t].barg.Data)]
                    [] c = "Truncate" ->
                         [kbfs EXCEPT !.data = Resize(@, th[t].barg.Size)]
                    [] c = "SetEx" ->
                         [kbfs EXCEPT !.exec = th[t].barg.Exec]
                    [] c = "RemoveEntry" -> KbfsRemoved
                    [] c = "Rename" ->
                         IF th[t].barg.NewDir = parent[th[t].file]
                            /\ th[t].barg.NewName = FKey[Len(FKey)]
                         THEN kbfs ELSE KbfsRemoved
                    [] OTHER -> kbfs

\* the backend at a step of thread t: a call on the Path of f returns by the
\* entry of f; calls on other Paths return any result and leave the entry
Backend(t) ==
    IF th[t].pc = "wait" /\ PathNames(th[t].arg) = FKey
    THEN IF kbfs.exists
         THEN ReturnOnEntry(t, th[t].cur)
         ELSE ReturnOnRemoved(t, th[t].cur)
    ELSE /\ (th[t].pc = "wait" => SamePath(t))
         /\ UNCHANGED kbfs

\* what the handlers on file f have written by their requests: a Write or a
\* Truncate the handler saw succeed, nothing once the entry is removed or
\* renamed away
Observe(t) ==
    written' =
        IF th[t].pc = "wait" /\ th[t].file = "f" /\ th[t].cur = "Write"
           /\ th'[t].ret = NoErr
        THEN Overwrite(written, th[t].rq.Offset, th[t].rq.Data)
        ELSE IF th[t].pc = "wait" /\ th[t].file = "f" /\ th[t].cur = "Truncate"
                /\ th'[t].pc # "unlock"
        THEN Resize(written, th[t].rq.Size)
        ELSE IF th[t].pc = "wait" /\ th[t].file = "f" /\ th[t].cur = "RemoveEntry"
                /\ th'[t].pc = "update"
        THEN << >>
        ELSE IF th[t].pc = "wait" /\ th[t].file = "f" /\ th[t].cur = "Rename"
                /\ th'[t].pc = "update" /\ th[t].barg.NewName # InitName["f"]
        THEN << >>
        ELSE written

\* a Rename that succeeds into the other Folder puts the new name there
OtherFolder(t) ==
    otherRoot' =
        IF th[t].pc = "wait" /\ th[t].cur = "Rename" /\ th'[t].pc = "update"
           /\ th[t].barg.NewDir = OtherDir
        THEN otherRoot \cup {th[t].barg.NewName}
        ELSE otherRoot

\* the backend and the record of what was written, at a step of thread t
Kbfs(t) == Backend(t) /\ Observe(t) /\ OtherFolder(t)

\* the threads of the specification that follows the content
DataThreads == {"t1"}

InitData ==
    /\ pathNode \in [Nodes -> PathNodes]
    /\ \A n \in Nodes : pathNode[n].Name = InitName[n]
    /\ \A n \in Nodes : pathNode[n].Ref = [ver |-> 0, pos |-> Depth(n)]
    /\ writer = NoNode
    /\ readers = {}
    /\ th = [t \in Threads |-> Idle]
    /\ kbfs = KbfsInit
    /\ written = << >>
    /\ otherRoot = {}

\* the handlers and Dir.Remove on one thread, with the backend keeping the
\* entry of file f
NextData ==
    \E t \in DataThreads :
        \/ Start(t) /\ Kbfs(t)
        \/ Attr(t) /\ Kbfs(t)
        \/ Read(t) /\ Kbfs(t)
        \/ Write(t) /\ Kbfs(t)
        \/ Fsync(t) /\ Kbfs(t)
        \/ Flush(t) /\ Kbfs(t)
        \/ Setattr(t) /\ Kbfs(t)
        \/ StartRemove(t) /\ Kbfs(t)
        \/ DirRemove(t) /\ Kbfs(t)

SpecData == InitData /\ [][NextData]_vars

\* the handlers and Dir.Rename on one thread, with the backend keeping the
\* entry of file f
NextRename ==
    \E t \in DataThreads :
        \/ Start(t) /\ Kbfs(t)
        \/ Attr(t) /\ Kbfs(t)
        \/ Read(t) /\ Kbfs(t)
        \/ Write(t) /\ Kbfs(t)
        \/ Fsync(t) /\ Kbfs(t)
        \/ Flush(t) /\ Kbfs(t)
        \/ Setattr(t) /\ Kbfs(t)
        \/ StartRename(t) /\ Kbfs(t)
        \/ DirRename(t) /\ Kbfs(t)

SpecRename == InitData /\ [][NextRename]_vars


(* ------------------------------ properties ---------------------------- *)

\* the thread is between acquiring and releasing folder.mu, by its position
InLock(t) == th[t].pc \notin {"idle", "lock"}

Mutating(t) == th[t].op \in Ops \ ReadOps

ReadOnly(t) == th[t].op \in ReadOps

\* the step is a step of thread t
StepOf(t) == th'[t] # th[t]

\* thread t enters a backend call in this step (and reconstructs the Path for it)
Enters(t) == th[t].pc # "wait" /\ th'[t].pc = "wait"

\* thread t runs f.updatePathLocked(p) in this step
Updates(t) == th[t].pc = "update" /\ th'[t].pc # "update"

\* C1: while a mutating operation is inside its locked section no other
\* operation is inside its own, and a read-only operation at its lock call
\* can take the lock at once when the only other operations under way are
\* read-only ones, inside their locked sections or not
C1_WriteExcludesAll ==
    /\ \A t, u \in Threads :
          (t # u /\ InLock(t) /\ Mutating(t)) => ~InLock(u)
    /\ \A t \in Threads :
          (/\ th[t].pc = "lock"
           /\ ReadOnly(t)
           /\ \A u \in Threads : th[u].pc # "idle" => ReadOnly(u))
          => ENABLED (Attr(t) \/ Read(t))

\* C1: two read-only operations are inside their locked sections together
C1_Witness ==
    \E t, u \in Threads :
        /\ t # u
        /\ th[t].op = "Attr" /\ th[t].pc = "wait" /\ HoldsRead(t)
        /\ th[u].op = "Read" /\ th[u].pc = "wait" /\ HoldsRead(u)

\* C2: a Path is reconstructed only by a thread holding folder.mu (for reading
\* or writing), path propagation runs only in a thread holding it for writing,
\* and no other step changes a PathNode
C2_PathNodeUnderLock ==
    [][/\ \A t \in Threads :
             /\ Enters(t) => (Holds(t) /\ (HoldsRead(t) \/ HoldsWrite(t))')
             /\ Updates(t) => (HoldsWrite(t) /\ HoldsWrite(t)')
       /\ pathNode' # pathNode =>
             \E t \in Threads : Updates(t) /\ HoldsWrite(t)]_vars

\* C2: a propagation under the write lock has stored a new PathNode, and the
\* Path was reconstructed from it for the next backend call
C2_Witness ==
    \E t \in Threads :
        /\ th[t].op = "Setattr" /\ th[t].pc = "wait" /\ th[t].cur = "SetMtime"
        /\ th[t].calls = <<"SetEx", "SetMtime">>
        /\ HoldsWrite(t)
        /\ pathNode[th[t].file].Ref.ver # 0
        /\ th[t].arg[Len(th[t].arg)] = pathNode[th[t].file]

\* C3: a thread takes folder.mu only at the handler's lock statement, before
\* any backend call, holds it in the handler's mode at every position after
\* it (in a backend call, in a propagation, between Setattr's fields), and
\* lets go of it only at the deferred unlock, with which the handler ends
C3_LockOncePerOperation ==
    [][\A t \in Threads :
          /\ InLock(t) => IF ReadOnly(t) THEN HoldsRead(t) /\ ~HoldsWrite(t)
                                          ELSE HoldsWrite(t) /\ ~HoldsRead(t)
          /\ ~InLock(t) => ~Holds(t)
          /\ (~Holds(t) /\ Holds(t)') =>
                (th[t].pc = "lock" /\ th[t].calls = << >> /\ th[t].arg = NoPath)
          /\ (Holds(t) /\ ~Holds(t)') =>
                (th[t].pc = "unlock" /\ th'[t].pc = "idle")]_vars

\* C3: Setattr is about to return with the lock still held after its three
\* backend calls
C3_Witness ==
    \E t \in Threads :
        /\ th[t].op = "Setattr" /\ th[t].pc = "unlock"
        /\ th[t].calls = <<"Truncate", "SetEx", "SetMtime">>
        /\ th[t].ret = NoErr
        /\ HoldsWrite(t)

\* the nodes from the root down to n
RECURSIVE ChainFrom(_)
ChainFrom(n) == IF parent[n] = NoNode THEN <<n>> ELSE Append(ChainFrom(parent[n]), n)

\* the chains of all nodes, computed once
Chains == [n \in Nodes |-> ChainFrom(n)]

Chain(n) == Chains[n]

\* the PathNodes stored along the chain of n, root first
ChainPath(pn, n) == [i \in 1..Len(Chain(n)) |-> pn[Chain(n)[i]]]

\* the name at position i of Path p is the remembered name of the i-th node of
\* the chain of n
Matches(p, n, i) == p[i].Name = pathNode[Chain(n)[i]].Name

IsSync(t) == th[t].op \in {"Fsync", "Flush"}

\* C4: a propagation of a Path whose names all match the chain stores the
\* Path's PathNode in every node of the chain, and the Path reconstructed
\* after it is that Path
C4_MatchingPathStoredAlongChain ==
    [][\A t \in Threads :
          LET f == th[t].file
              P == th[t].p
          IN  (/\ Updates(t)
               /\ Len(P) = Len(Chain(f))
               /\ \A i \in 1..Len(P) : Matches(P, f, i))
              => /\ \A i \in 1..Len(P) : pathNode'[Chain(f)[i]] = P[i]
                 /\ FileGetPathLocked(pathNode', f) = P]_vars

\* C4: sync has propagated a Path of three matching names from the file f, and
\* the tree holds it
C4_Witness ==
    \E t \in Threads :
        /\ IsSync(t) /\ th[t].pc = "unlock" /\ th[t].file = "f"
        /\ Len(th[t].p) = 3
        /\ \A i \in 1..3 : Matches(th[t].p, "f", i)
        /\ th[t].p[1].Ref.ver # 0
        /\ FileGetPathLocked(pathNode, "f") = th[t].p

\* C5: a propagation of a Path whose last name is not the File's changes no
\* PathNode, and the operation goes on as after a stored update: sync returns
\* nil, Setattr moves to its next field with no error
C5_MismatchDroppedSilently ==
    [][\A t \in Threads :
          LET f == th[t].file
              P == th[t].p
          IN  (Updates(t) /\ P[Len(P)].Name # pathNode[f].Name)
              => /\ pathNode' = pathNode
                 /\ th'[t].berr = "none"
                 /\ th[t].cur = "Sync" =>
                       (th'[t].pc = "unlock" /\ th'[t].ret = NoErr)
                 /\ th[t].cur = "SetEx" =>
                       (th'[t].pc = "sa_mtime" /\ th'[t].ret = "none")
                 /\ th[t].cur = "SetMtime" =>
                       (th'[t].pc = "sa_rest" /\ th'[t].ret = "none")]_vars

\* C5: sync returns nil after a Path with another last name, of a version no
\* node of the chain holds
C5_Witness ==
    \E t \in Threads :
        /\ IsSync(t) /\ th[t].pc = "unlock" /\ th[t].ret = NoErr
        /\ th[t].p # NoPath
        /\ th[t].p[Len(th[t].p)].Name # pathNode[th[t].file].Name
        /\ \A i \in 1..Len(th[t].p) :
              /\ i < Len(th[t].p) => Matches(th[t].p, th[t].file, i)
              /\ pathNode[Chain(th[t].file)[i]].Ref.ver # th[t].p[i].Ref.ver

\* C6: when the first name that does not match, going up from the File, is at
\* the ancestor at position k, the nodes at positions 1..k keep their
\* PathNodes and the nodes below k hold the Path's PathNodes
C6_AbandonedAtAncestor ==
    [][\A t \in Threads :
          LET f == th[t].file
              P == th[t].p
          IN  \A k \in 1..(Len(P) - 1) :
                (/\ Updates(t)
                 /\ Len(P) = Len(Chain(f))
                 /\ ~Matches(P, f, k)
                 /\ \A i \in (k + 1)..Len(P) : Matches(P, f, i))
                => /\ \A i \in 1..k :
                         pathNode'[Chain(f)[i]] = pathNode[Chain(f)[i]]
                   /\ \A i \in (k + 1)..Len(P) : pathNode'[Chain(f)[i]] = P[i]]_vars

\* C6: sync has propagated from f a Path whose name for d does not match: f
\* holds its element, d and the root do not hold theirs though the root's name
\* matches
C6_Witness ==
    \E t \in Threads :
        /\ IsSync(t) /\ th[t].pc = "unlock" /\ th[t].file = "f"
        /\ Len(th[t].p) = 3
        /\ Matches(th[t].p, "f", 3) /\ ~Matches(th[t].p, "f", 2)
        /\ Matches(th[t].p, "f", 1)
        /\ pathNode["f"] = th[t].p[3]
        /\ pathNode["d"].Ref.ver # th[t].p[2].Ref.ver
        /\ pathNode["root"].Ref.ver # th[t].p[1].Ref.ver

\* C7: a thread whose Sync, SetEx or SetMtime call has returned without an
\* error holds the returned Path in p at the propagation statement, still
\* under the write lock and with no further backend call made; its next step
\* is the propagation of p from its File
C7_ReturnedPathPropagated ==
    [][\A t \in Threads :
          /\ (th[t].pc = "wait" /\ th[t].cur \in PathCalls /\ StepOf(t)) =>
                \/ th'[t].berr \in BackendErrs
                \/ /\ th'[t].pc = "update"
                   /\ th'[t].p \in BackendPaths(Len(th[t].arg))
                   /\ th'[t].calls = th[t].calls
                   /\ HoldsWrite(t)'
          /\ (th[t].pc = "update" /\ StepOf(t)) =>
                /\ HoldsWrite(t)
                /\ pathNode' = FileUpdatePathLocked(pathNode, th[t].file, th[t].p)
                /\ th'[t].calls = th[t].calls]_vars

\* C7: Setattr has propagated the Paths of SetEx and of SetMtime
C7_Witness ==
    \E t \in Threads :
        /\ th[t].op = "Setattr" /\ th[t].pc = "sa_rest"
        /\ th[t].calls = <<"SetEx", "SetMtime">>
        /\ HoldsWrite(t)
        /\ pathNode[th[t].file].Ref.ver # 0

\* C8: the Path reconstructed for a File is the PathNodes stored along its
\* chain, root first and its own last; the step that reconstructs it for a
\* backend call passes that Path and changes no PathNode
C8_ReconstructedPath ==
    [][/\ \A f \in Files :
             LET P == FileGetPathLocked(pathNode, f)
             IN  /\ P = ChainPath(pathNode, f)
                 /\ P = Append(DirGetPathLocked(pathNode, parent[f]), pathNode[f])
                 /\ Len(P) = Len(Chain(parent[f])) + 1
       /\ \A t \in Threads :
             Enters(t) => /\ th'[t].arg = ChainPath(pathNode, th[t].file)
                          /\ pathNode' = pathNode]_vars

\* C8: a backend call holds the Path of f, reconstructed after f alone took a
\* new PathNode
C8_Witness ==
    \E t \in Threads :
        /\ th[t].pc = "wait" /\ th[t].file = "f"
        /\ th[t].arg = <<pathNode["root"], pathNode["d"], pathNode["f"]>>
        /\ th[t].arg[3].Ref.ver # 0 /\ th[t].arg[2].Ref.ver = 0

\* C9: when a backend call returns an error the handler returns that error:
\* it goes to its return with it, makes no further step but the unlock, and no
\* PathNode changes
C9_BackendErrorReturned ==
    [][\A t \in Threads :
          /\ (th[t].pc = "wait" /\ StepOf(t) /\ th'[t].berr # "none") =>
                /\ th'[t].pc = "unlock"
                /\ th'[t].ret = th'[t].berr
                /\ pathNode' = pathNode
          /\ (th[t].pc # "wait" /\ th[t].berr # "none") =>
                /\ th[t].pc = "unlock"
                /\ th[t].ret = th[t].berr
                /\ StepOf(t) => (th'[t].pc = "idle" /\ pathNode' = pathNode)]_vars

\* C9: Setattr returns the error of SetEx after a Truncate that succeeded
C9_Witness ==
    \E t \in Threads :
        /\ th[t].op = "Setattr" /\ th[t].pc = "unlock"
        /\ th[t].calls = <<"Truncate", "SetEx">>
        /\ th[t].berr = "ENOENT" /\ th[t].ret = "ENOENT"

\* C10: Fsync and Flush run the same commit: whichever of the two a thread
\* runs, it is under the write lock, makes the one backend call Sync with the
\* reconstructed Path, propagates the returned Path and returns nil, or
\* returns the error of Sync and propagates nothing
C10_FsyncFlushSame ==
    [][\A t \in Threads :
          IsSync(t) =>
            /\ InLock(t) => HoldsWrite(t)
            /\ th[t].pc = "call" => th[t].calls = << >>
            /\ th[t].pc = "wait" =>
                  /\ th[t].cur = "Sync" /\ th[t].calls = <<"Sync">>
                  /\ th[t].arg = FileGetPathLocked(pathNode, th[t].file)
            /\ th[t].pc = "update" =>
                  /\ th[t].calls = <<"Sync">>
                  /\ StepOf(t) =>
                        /\ pathNode' =
                              FileUpdatePathLocked(pathNode, th[t].file, th[t].p)
                        /\ th'[t].pc = "unlock" /\ th'[t].ret = NoErr
            /\ th[t].pc = "unlock" =>
                  /\ th[t].calls = <<"Sync">>
                  /\ \/ th[t].berr \in BackendErrs /\ th[t].ret = th[t].berr
                        /\ th[t].p = NoPath
                     \/ th[t].berr = "none" /\ th[t].ret = NoErr
                        /\ th[t].p # NoPath
            /\ (StepOf(t) /\ ~Updates(t)) => pathNode' = pathNode]_vars

\* C10: Flush has committed and stored the returned PathNode in its File
C10_Witness ==
    \E t \in Threads :
        /\ th[t].op = "Flush" /\ th[t].pc = "unlock" /\ th[t].ret = NoErr
        /\ th[t].calls = <<"Sync">>
        /\ th[t].p # NoPath
        /\ pathNode[th[t].file] = th[t].p[Len(th[t].p)]
        /\ pathNode[th[t].file].Ref.ver # 0

\* the backend calls of the fields size, mode and modification time of the
\* field set X, in the order of the handler
CallsFor(X) ==
    (IF "Size" \in X THEN <<"Truncate">> ELSE << >>)
    \o (IF "Mode" \in X THEN <<"SetEx">> ELSE << >>)
    \o (IF "Mtime" \in X THEN <<"SetMtime">> ELSE << >>)

\* the backend call of a field
CallOfField(F) == CASE F = "Size"  -> "Truncate"
                    [] F = "Mode"  -> "SetEx"
                    [] F = "Mtime" -> "SetMtime"

Called(t, call) == \E i \in 1..Len(th[t].calls) : th[t].calls[i] = call

\* Setattr has reached its return
SetattrReturns(t) == th[t].op = "Setattr" /\ th[t].pc = "unlock"

\* C11 as stated: at the return of Setattr the backend call of every field
\* among size, mode and modification time of the request has been made,
\* whatever the other calls returned
C11_EveryPresentFieldCalled ==
    \A t \in Threads :
        SetattrReturns(t) =>
            \A F \in th[t].req \cap {"Size", "Mode", "Mtime"} :
                Called(t, CallOfField(F))

\* C11 amended: the backend call of a present field is made when every backend
\* call made before it in the order size, mode, modification time succeeded;
\* after a call that fails none is made for the fields that follow
C11_FieldsCalledUntilFirstError ==
    \A t \in Threads :
        SetattrReturns(t) =>
            IF th[t].berr = "none"
            THEN th[t].calls = CallsFor(th[t].req)
            ELSE \E k \in 1..Len(CallsFor(th[t].req)) :
                    th[t].calls = SubSeq(CallsFor(th[t].req), 1, k)

\* C11: Setattr with size, mode and modification time returns the error of
\* SetEx: Truncate was called, SetMtime was not
C11_Witness ==
    \E t \in Threads :
        /\ SetattrReturns(t)
        /\ {"Size", "Mode", "Mtime"} \subseteq th[t].req
        /\ th[t].calls = <<"Truncate", "SetEx">>
        /\ th[t].berr = "EIO"

\* C12: a Setattr whose request has a bit it does not handle never returns
\* nil, and returns ENOSYS when no backend call failed
C12_UnhandledFieldNeverSucceeds ==
    \A t \in Threads :
        (SetattrReturns(t) /\ "Uid" \in th[t].req) =>
            /\ th[t].ret # NoErr
            /\ th[t].berr = "none" => th[t].ret = ENOSYS
            /\ th[t].berr # "none" => th[t].ret = th[t].berr

\* C12: Setattr with mode and an unhandled bit returns ENOSYS after SetEx
\* succeeded
C12_Witness ==
    \E t \in Threads :
        /\ SetattrReturns(t)
        /\ th[t].req = {"Mode", "Uid"}
        /\ th[t].calls = <<"SetEx">>
        /\ th[t].ret = ENOSYS

\* C13 as stated: a Setattr that returns ENOSYS has made no backend call
C13_EnosysWithoutBackendCall ==
    \A t \in Threads :
        (SetattrReturns(t) /\ th[t].ret = ENOSYS) => th[t].calls = << >>

\* C13 amended: a Setattr returns ENOSYS only for a request with an unhandled
\* bit and only after the backend call of every size, mode and modification
\* time field of the request was made and succeeded; the check of the bits
\* that are left and the return change no PathNode, so what those calls and
\* their propagations did stays
C13_EnosysAfterFieldsApplied ==
    [][\A t \in Threads :
          /\ th[t].ret = ENOSYS =>
                /\ SetattrReturns(t)
                /\ "Uid" \in th[t].req
                /\ th[t].berr = "none"
                /\ th[t].calls = CallsFor(th[t].req)
                /\ StepOf(t) => pathNode' = pathNode
          /\ (th[t].pc = "sa_rest" /\ StepOf(t)) =>
                /\ pathNode' = pathNode
                /\ th'[t].calls = th[t].calls
                /\ th'[t].ret = ENOSYS <=> "Uid" \in th[t].req]_vars

\* C13: Setattr returns ENOSYS after SetEx and SetMtime were made and a new
\* PathNode was stored
C13_Witness ==
    \E t \in Threads :
        /\ SetattrReturns(t)
        /\ th[t].ret = ENOSYS
        /\ th[t].req = {"Mode", "Mtime", "Uid"}
        /\ th[t].calls = <<"SetEx", "SetMtime">>
        /\ pathNode[th[t].file].Ref.ver # 0

\* C14: what Setattr calls and returns is what it calls and returns for the
\* request without its access-time bit: the calls of size, mode and
\* modification time and nothing for the access time, ENOSYS exactly for an
\* unhandled bit; with the access time alone no call and nil
C14_AtimeDiscarded ==
    \A t \in Threads :
        SetattrReturns(t) =>
            LET X == th[t].req \ {"Atime"}
            IN  /\ \A i \in 1..Len(th[t].calls) :
                      th[t].calls[i] \in {"Truncate", "SetEx", "SetMtime"}
                /\ th[t].berr = "none" =>
                      /\ th[t].calls = CallsFor(X)
                      /\ th[t].ret = IF "Uid" \in X THEN ENOSYS ELSE NoErr
                      /\ "Atime" \notin th[t].valid
                /\ th[t].berr # "none" =>
                      /\ \E k \in 1..Len(CallsFor(X)) :
                            th[t].calls = SubSeq(CallsFor(X), 1, k)
                      /\ th[t].ret = th[t].berr
                /\ X = {} => (th[t].calls = << >> /\ th[t].ret = NoErr)

\* C14: Setattr with access time and modification time has called SetMtime
\* alone and returns nil
C14_Witness ==
    \E t \in Threads :
        /\ SetattrReturns(t)
        /\ th[t].req = {"Atime", "Mtime"}
        /\ th[t].calls = <<"SetMtime">>
        /\ th[t].ret = NoErr

\* the permission bits rwxr-xr-x (0755) and rw-r--r-- (0644), by octal digit
Mode0755 == 7 * 64 + 5 * 8 + 5

Mode0644 == 6 * 64 + 4 * 8 + 4

\* the mode m has the bit 0100
HasOwnerExec(m) == (m \div OwnerExec) % 2 = 1

\* the handler op on file f has reached its return
Returns(t, op, f) == th[t].op = op /\ th[t].file = f /\ th[t].pc = "unlock"

\* the backend call c of a handler on file f returns in this step
BackendReturns(t, c, f) ==
    th[t].pc = "wait" /\ th[t].cur = c /\ th[t].file = f /\ th'[t] # th[t]

\* C15: Setattr hands to SetEx the flag (req.Mode has the bit 0100) for every
\* mode; a SetEx that succeeds on file f leaves that flag in the backend's
\* entry, nothing but SetEx and the removal changes it, and an Attr that
\* succeeds on f reports 0755 with the flag set and 0644 without
C15_ChmodSetsExecTriple ==
    [][\A t \in Threads :
          /\ (th'[t].pc = "wait" /\ th'[t].cur = "SetEx" /\ th'[t] # th[t]) =>
                /\ th'[t].rq.Mode \in Modes
                /\ th'[t].barg.Exec = HasOwnerExec(th'[t].rq.Mode)
          /\ (BackendReturns(t, "SetEx", "f") /\ th'[t].berr = "none") =>
                kbfs'.exec = HasOwnerExec(th[t].rq.Mode)
          /\ (BackendReturns(t, "Stat", "f") /\ th'[t].ret = NoErr) =>
                th'[t].resp.Mode = IF kbfs.exec THEN Mode0755 ELSE Mode0644
          /\ (kbfs'.exec # kbfs.exec /\ th'[t] # th[t]) =>
                (BackendReturns(t, "SetEx", "f") \/ BackendReturns(t, "RemoveEntry", "f"))]_vars

\* C15: an Attr on file f reports 0755 after a Setattr set the flag
C15_Witness ==
    \E t \in Threads :
        /\ Returns(t, "Attr", "f")
        /\ th[t].ret = NoErr
        /\ kbfs.exec
        /\ th[t].resp.Mode = Mode0755

\* C16: an Attr that succeeds reports the mode 0755 for an entry of type Exec
\* and 0644 for any other, whatever the size of the entry, and the size as
\* the backend returned it; an Attr whose Stat failed returns the error and
\* has filled in nothing
C16_AttrModeByType ==
    \A t \in Threads :
        (th[t].op = "Attr" /\ th[t].pc = "unlock") =>
            IF th[t].berr = "none"
            THEN /\ th[t].ret = NoErr
                 /\ th[t].resp.Mode = IF th[t].rq.Type = "Exec" THEN Mode0755 ELSE Mode0644
                 /\ th[t].resp.Size = th[t].rq.Size
            ELSE /\ th[t].ret = th[t].berr
                 /\ th[t].resp = None

\* C16: an Attr reports 0755 for an entry of type Exec of size MaxLen
C16_Witness ==
    \E t \in Threads :
        /\ th[t].op = "Attr" /\ th[t].pc = "unlock"
        /\ th[t].ret = NoErr
        /\ th[t].rq.Type = "Exec"
        /\ th[t].rq.Size = MaxLen
        /\ th[t].resp.Mode = Mode0755

\* C17: Read returns resp.Data of exactly the n bytes the backend counted,
\* n from 0 to the capacity of the buffer, and the backend's error: nil when
\* the backend returned nil, however short the count
C17_ReadReturnsBackendCount ==
    \A t \in Threads :
        (th[t].op = "Read" /\ th[t].pc = "unlock") =>
            /\ th[t].rq.N \in 0..th[t].rq.Cap
            /\ Len(th[t].resp.Data) = th[t].rq.N
            /\ th[t].ret = IF th[t].berr = "none" THEN NoErr ELSE th[t].berr

\* C17: a Read of capacity MaxLen returns one byte and nil
C17_Witness ==
    \E t \in Threads :
        /\ th[t].op = "Read" /\ th[t].pc = "unlock"
        /\ th[t].rq.Cap = MaxLen
        /\ th[t].rq.N = 1
        /\ Len(th[t].resp.Data) = 1
        /\ th[t].ret = NoErr

\* C18: Write returns nil and resp.Size = len(req.Data) exactly when the
\* backend's Write returned nil; when it failed Write returns the error and
\* resp.Size is not written
C18_WriteSizeOnlyOnSuccess ==
    \A t \in Threads :
        (th[t].op = "Write" /\ th[t].pc = "unlock") =>
            IF th[t].berr = "none"
            THEN /\ th[t].ret = NoErr
                 /\ th[t].resp = [Size |-> Len(th[t].rq.Data)]
            ELSE /\ th[t].ret = th[t].berr
                 /\ th[t].resp = None

\* C18: a Write of MaxLen bytes fails and reports no size
C18_Witness ==
    \E t \in Threads :
        /\ th[t].op = "Write" /\ th[t].pc = "unlock"
        /\ Len(th[t].rq.Data) = MaxLen
        /\ th[t].berr = "EIO"
        /\ th[t].resp = None

\* C19: a Read that succeeds on file f returns, for the positions of its
\* range, the bytes that the Writes the handler saw succeed wrote last there
\* (zero bytes in a gap no Write covered), whether or not a Fsync or Flush
\* came in between
C19_ReadReturnsLastWritten ==
    \A t \in Threads :
        (Returns(t, "Read", "f") /\ th[t].ret = NoErr) =>
            th[t].resp.Data = Slice(written, th[t].rq.Offset, th[t].rq.Cap)

\* C19: a Read at offset 1 returns the byte 1 of a Write over a content that
\* starts with the byte 0 of another Write
C19_Witness ==
    \E t \in Threads :
        /\ Returns(t, "Read", "f")
        /\ th[t].ret = NoErr
        /\ th[t].rq.Offset = 1
        /\ th[t].resp.Data = <<1>>
        /\ written = <<0, 1>>

\* the names in the listing of the directory of file f
Listing == IF kbfs.exists THEN {InitName["f"]} ELSE {}

C21_TruncateContent ==
    [][\A t \in Threads :
          /\ (BackendReturns(t, "Truncate", "f") /\ th'[t].berr = "none") =>
                LET S == th[t].rq.Size
                    L == Len(written)
                IN  /\ Len(written') = S
                    /\ \A i \in 1..S :
                          written'[i] = IF i <= L THEN written[i] ELSE 0
                    /\ kbfs'.data = written'
          /\ (BackendReturns(t, "Stat", "f") /\ th'[t].ret = NoErr) =>
                th'[t].resp.Size = Len(written)
          /\ (BackendReturns(t, "Read", "f") /\ th'[t].ret = NoErr) =>
                th'[t].resp.Data = Slice(written, th[t].rq.Offset, th[t].rq.Cap)]_vars

\* C21: an Attr on file f reports the size MaxLen of a content that a Setattr
\* grew from the byte 1 with zero bytes
C21_Witness ==
    \E t \in Threads :
        /\ Returns(t, "Attr", "f")
        /\ th[t].ret = NoErr
        /\ th[t].resp.Size = MaxLen
        /\ written = [i \in 1..MaxLen |-> IF i = 1 THEN 1 ELSE 0]

\* the Rename of thread t asks for a new directory in another Folder
CrossFolder(t) ==
    /\ th[t].op = "Rename"
    /\ th[t].rq # None
    /\ FolderOf(th[t].rq.NewDir) # FolderOf(parent[th[t].file])

\* C22: a Rename whose new directory is in another Folder returns the
\* cross-device error, makes no backend call, and leaves both Folders as
\* they are: the PathNodes, the entry of the file with its content, and the
\* names in the other Folder's root, where the new name does not exist
C22_CrossFolderRenameRejected ==
    [][\A t \in Threads :
          (StepOf(t) /\ (CrossFolder(t)' \/ CrossFolder(t))) =>
              /\ CrossFolder(t)' => (th'[t].pc = "unlock" /\ th'[t].ret = "EXDEV")
              /\ th[t].calls = << >> /\ th'[t].calls = << >>
              /\ th'[t].pc # "wait"
              /\ UNCHANGED <<pathNode, kbfs, written, otherRoot>>
              /\ otherRoot = {}]_vars

C22_Witness ==
    \E t \in Threads :
        /\ CrossFolder(t) /\ th[t].file = "f"
        /\ th[t].pc = "unlock" /\ th[t].ret = "EXDEV"
        /\ kbfs.exists /\ kbfs.data = written /\ Len(written) = MaxLen
        /\ th[t].rq.NewName \notin otherRoot

\* C23: the Path a backend call is entered with is the PathNodes stored along
\* the File's chain at that step, read under the lock the thread holds, and
\* stays equal to the stored chain for as long as the call is out; between
\* the propagation of SetEx's Path and the call of SetMtime in one Setattr no
\* other thread changes a PathNode, so SetMtime is entered with the PathNodes
\* that propagation stored; PathNodes change by propagations alone, so the
\* Path of a call has every update of the propagations before it
C23_FreshPathAtEveryCall ==
    [][\A t \in Threads :
          /\ Enters(t) =>
                /\ Holds(t)
                /\ th'[t].arg = ChainPath(pathNode, th[t].file)
                /\ th'[t].arg = ChainPath(pathNode', th[t].file)
          /\ (th[t].pc = "wait" /\ th'[t].pc = "wait") =>
                th'[t].arg = ChainPath(pathNode', th[t].file)
          /\ (th[t].op = "Setattr" /\ th[t].cur = "SetEx" /\ Updates(t)) =>
                /\ th'[t].pc = "sa_mtime"
                /\ pathNode' = FileUpdatePathLocked(pathNode, th[t].file, th[t].p)
          /\ (th[t].pc = "sa_mtime" /\ "Mtime" \in th[t].valid) =>
                IF StepOf(t)
                THEN /\ th'[t].cur = "SetMtime"
                     /\ th'[t].arg = ChainPath(pathNode, th[t].file)
                ELSE pathNode' = pathNode
          /\ pathNode' # pathNode => \E u \in Threads : Updates(u)]_vars

\* C23: SetMtime of a Setattr is out with the Path of f whose last PathNode
\* the propagation of SetEx's Path stored, the one the tree holds
C23_Witness ==
    \E t \in Threads :
        /\ th[t].op = "Setattr" /\ th[t].file = "f"
        /\ th[t].pc = "wait" /\ th[t].cur = "SetMtime"
        /\ th[t].calls = <<"SetEx", "SetMtime">>
        /\ th[t].arg = ChainPath(pathNode, "f")
        /\ th[t].arg[Len(th[t].arg)].Ref.ver = MaxRef
        /\ th[t].arg[1].Ref.ver = 0

\* the sequence s starts with the sequence q
IsPrefix(q, s) == Len(q) <= Len(s) /\ SubSeq(s, 1, Len(q)) = q

\* C24: the backend calls of a Setattr are at every moment a start of
\* Truncate, SetEx, SetMtime for the fields of its request; the step in
\* which a call fails takes the handler to its return with that error and
\* changes no PathNode and nothing of the backend's entry, and from then to
\* the end of the handler no call is made and the PathNodes and the entry,
\* with what the earlier calls did to them, stay as they are
C24_FirstFailureEndsSetattr ==
    [][\A t \in Threads :
          th[t].op = "Setattr" =>
              /\ IsPrefix(th[t].calls, CallsFor(th[t].req))
              /\ (th[t].pc = "wait" /\ th'[t].berr # "none") =>
                    /\ th'[t].pc = "unlock"
                    /\ th'[t].ret = th'[t].berr
                    /\ th'[t].calls = th[t].calls
                    /\ UNCHANGED <<pathNode, kbfs, written>>
              /\ th[t].berr # "none" =>
                    /\ th[t].pc = "unlock"
                    /\ StepOf(t) => th'[t] = Idle
                    /\ UNCHANGED <<pathNode, kbfs, written>>]_vars

\* C24: Setattr returns the error of SetMtime; the content Truncate cut to one
\* byte, the flag SetEx set and the PathNode its propagation stored are in
\* place
C24_Witness ==
    \E t \in Threads :
        /\ SetattrReturns(t) /\ th[t].file = "f"
        /\ th[t].calls = <<"Truncate", "SetEx", "SetMtime">>
        /\ th[t].ret = "EIO"
        /\ kbfs.exists /\ kbfs.exec /\ Len(kbfs.data) = 1
        /\ pathNode["f"].Ref.ver = MaxRef

(* ------------------- propagation, one node at a time ------------------- *)

\* the positions of Path p that updatePathLocked, walking up from the File f,
\* still has to store: the names match from there down and the node does not
\* hold the Path's PathNode yet
ToStore(pn, f, p) ==
    {i \in 1..Len(p) :
        /\ \A j \in i..Len(p) : pn[Chain(f)[j]].Name = p[j].Name
        /\ pn[Chain(f)[i]] # p[i]}

\* the position updatePathLocked stores next: the lowest node of the chain
\* that is left
NextStore(pn, f, p) == CHOOSE i \in ToStore(pn, f, p) : \A j \in ToStore(pn, f, p) : j <= i

\* f.pathNode = pNode of one node of the chain; the walk goes on to its parent
UpdateNode(t) ==
    /\ th[t].pc = "update"
    /\ th[t].cur \in PathCalls
    /\ ToStore(pathNode, th[t].file, th[t].p) # {}
    /\ LET k == NextStore(pathNode, th[t].file, th[t].p)
       IN  pathNode' = [pathNode EXCEPT ![Chain(th[t].file)[k]] = th[t].p[k]]
    /\ UNCHANGED <<th, writer, readers>>

\* the handlers of File on every thread, a propagation storing its PathNodes
\* in one step or node by node
NextWalk ==
    \E t \in Threads :
        \/ Start(t) /\ Unfollowed
        \/ Attr(t) /\ Unfollowed
        \/ Read(t) /\ Unfollowed
        \/ Write(t) /\ Unfollowed
        \/ Fsync(t) /\ Unfollowed
        \/ Flush(t) /\ Unfollowed
        \/ Setattr(t) /\ Unfollowed
        \/ UpdateNode(t) /\ Unfollowed

SpecWalk == Init /\ [][NextWalk]_vars

\* the propagation of thread u has stored the lower part of its Path and has
\* the upper part left
Halfway(u) ==
    /\ th[u].pc = "update"
    /\ ToStore(pathNode, th[u].file, th[u].p) # {}
    /\ NextStore(pathNode, th[u].file, th[u].p) < Len(th[u].p)

\* the chain of file f has a node the propagation of u has stored already (and
\* with it the nodes above, which it has left)
Mixes(f, u) ==
    /\ Halfway(u)
    /\ \E j \in NextStore(pathNode, th[u].file, th[u].p) + 1 .. Len(th[u].p) :
          \E i \in 1..Len(Chain(f)) : Chain(f)[i] = Chain(th[u].file)[j]

\* C25: the Path an Attr or a Read reconstructs never holds a PathNode a
\* propagation under way has stored together with one it has yet to replace:
\* no propagation is between two of its stores when the Path is reconstructed,
\* and none starts or goes on while the Attr or Read is in its locked section
C25_PropagationAtomicForReaders ==
    [][\A t, u \in Threads :
          t # u =>
              /\ (ReadOnly(t) /\ Enters(t)) =>
                    (~Mixes(th[t].file, u) /\ th[u].pc # "update")
              /\ (ReadOnly(t) /\ InLock(t)) =>
                    (th[u].pc # "update" /\ (StepOf(u) => pathNode' = pathNode))
              /\ (th[u].pc = "update" /\ StepOf(t)) =>
                    (pathNode' = pathNode /\ th'[t].pc \in {"idle", "lock"})]_vars

\* C25: a propagation from f has stored the PathNode of f and has that of d
\* left while an Attr on f waits at its lock call
C25_Witness ==
    \E t, u \in Threads :
        /\ t # u
        /\ Mixes("f", u) /\ th[u].file = "f"
        /\ NextStore(pathNode, "f", th[u].p) = Len(th[u].p) - 1
        /\ th[t].op = "Attr" /\ th[t].file = "f" /\ th[t].pc = "lock"

(* ------------------------------- progress ------------------------------ *)

\* the backend returns the Path it was given: nothing of the entity moved
NothingMoved(t) ==
    /\ th'[t].pc = "update" => th'[t].p = th[t].arg
    /\ Unfollowed

\* a step of the handler that thread t runs
Handler(t) ==
    \/ Attr(t) /\ NothingMoved(t)
    \/ Read(t) /\ NothingMoved(t)
    \/ Write(t) /\ NothingMoved(t)
    \/ Fsync(t) /\ NothingMoved(t)
    \/ Flush(t) /\ NothingMoved(t)
    \/ Setattr(t) /\ NothingMoved(t)

\* a request arrives or a handler steps, on any thread
NextFair ==
    \E t \in Threads :
        \/ Start(t) /\ NothingMoved(t)
        \/ Handler(t)

\* the handlers of File on every thread, where a handler that can step does
\* (the statements of a handler run on, a backend call returns) and a handler
\* at its lock call gets folder.mu if it is free again and again
SpecFair ==
    /\ Init
    /\ [][NextFair]_vars
    /\ \A t \in Threads :
          /\ WF_vars(th[t].pc # "lock" /\ Handler(t))
          /\ SF_vars(th[t].pc = "lock" /\ Handler(t))

\* C26: a thread outside a handler, or at its lock call, does not hold
\* folder.mu, whichever way the handler before it returned; every handler that
\* has started returns, and every hold of folder.mu is let go of
C26_EveryOperationReleases ==
    /\ [](\A t \in Threads : th[t].pc \in {"idle", "lock"} => ~Holds(t))
    /\ \A t \in Threads : (th[t].pc # "idle") ~> (th[t].pc = "idle")
    /\ \A t \in Threads : Holds(t) ~> ~Holds(t)

\* C26: Setattr is at its return with ENOSYS, the write lock held, and the
\* other thread waits at its lock call
C26_Witness ==
    \E t, u \in Threads :
        /\ t # u
        /\ SetattrReturns(t) /\ th[t].ret = ENOSYS /\ HoldsWrite(t)
        /\ th[u].pc = "lock"

\* C27: whatever Paths the backend returned to the handlers run so far, the
\* PathNode of every File has the name the File was constructed with; a step
\* that changes the PathNode of a File changes its backend reference and
\* leaves the name
C27_FileNameKept ==
    [][\A f \in Files :
          /\ pathNode[f].Name = InitName[f]
          /\ pathNode'[f].Name = pathNode[f].Name
          /\ pathNode'[f] # pathNode[f] => pathNode'[f].Ref # pathNode[f].Ref]_vars

\* C27: sync has propagated from f a Path with another name for d; f holds
\* the new reference under its own name
C27_Witness ==
    \E t \in Threads :
        /\ IsSync(t) /\ th[t].file = "f"
        /\ th[t].pc = "unlock" /\ th[t].ret = NoErr
        /\ th[t].p[2].Name # InitName["d"]
        /\ pathNode["f"] = th[t].p[3]
        /\ pathNode["f"].Ref.ver = MaxRef
        /\ pathNode["f"].Name = InitName["f"]

\* the step of thread t is one of Attr, Read or Write, or of the size block
\* of Setattr
Framed(t) ==
    \/ th[t].op \in {"Attr", "Read", "Write"}
    \/ th[t].op = "Setattr" /\ (th[t].pc = "sa_size" \/ th[t].cur = "Truncate")

\* the step of thread t is the propagation of sync or of the mode or the
\* modification-time block of Setattr
PropagationStep(t) ==
    /\ th[t].pc = "update"
    /\ \/ IsSync(t) /\ th[t].cur = "Sync"
       \/ th[t].op = "Setattr" /\ th[t].cur \in {"SetEx", "SetMtime"}

\* C28: no step of Attr, Read, Write or of the size block of Setattr changes
\* a PathNode, whether its backend call returns nil or an error; a step that
\* changes a PathNode is the propagation of Fsync, of Flush or of the mode or
\* modification-time block of Setattr
C28_OnlyPropagationsChangePathNodes ==
    [][/\ \A t \in Threads :
             (StepOf(t) /\ Framed(t)) => pathNode' = pathNode
       /\ pathNode' # pathNode =>
             \E t \in Threads : StepOf(t) /\ PropagationStep(t)]_vars

\* C28: Setattr returns the error of its Truncate on f while the PathNode of
\* f is the one an earlier propagation stored and those of d and the root are
\* as constructed
C28_Witness ==
    \E t \in Threads :
        /\ SetattrReturns(t) /\ th[t].file = "f"
        /\ th[t].calls = <<"Truncate">> /\ th[t].ret = "EIO"
        /\ pathNode["f"].Ref.ver = MaxRef
        /\ pathNode["d"].Ref.ver = 0 /\ pathNode["root"].Ref.ver = 0

=============================================================================
